---------------------------- MODULE Spec2Model ----------------------------
(***************************************************************************)
(* Model of the AXI4-Stream FIFO driver of xilinx/src/stream_fifo.rs.      *)
(*                                                                         *)
(* A u32 register value is the tuple of its four bytes, most significant   *)
(* first (0xBA600000 is <<\hBA, \h60, \h00, \h00>>): TLC's integers are    *)
(* 32-bit signed and cannot hold 0x80000000.  A 64- or 128-bit data word   *)
(* is the tuple of its 8 or 16 bytes, most significant first.              *)
(***************************************************************************)
EXTENDS Naturals, Sequences, FiniteSets, TLC

VARIABLES
    endian,     \* byte order of the host the driver was built for
    nMaps,      \* number of maps the UIO device advertises
    fifo,       \* the StreamFifo handle, or NoFifo before try_from
    dev,        \* registers and FIFOs of the peripheral
    call,       \* the current / last call: arguments, result, position
    bus         \* bus accesses issued by the current / last call, in order

vars == <<endian, nMaps, fifo, dev, call, bus>>

---------------------------------------------------------------------------
(* Bounds of the model.                                                    *)

\* Payloads, packets and caller buffers hold up to MaxChunks whole FIFO words
\* followed by up to MaxRem more bytes.
MaxChunks == 1
MaxRem == 1
\* Largest TX_VACANCY / RX_OCCUPANCY word count the peripheral reports.
MaxWords == 2
\* Largest number of maps a device advertises.
MaxMaps == 2
\* Largest number of fruitless polls of INTERRUPT_STATUS in one write_bytes.
MaxPolls == 1
\* Latest bus access of one step of a call that may fail.
MaxFail == 5
\* Largest bit count given to try_from_bits, besides a few powers of two.
MaxBits == 520

---------------------------------------------------------------------------
(* Bytes and words.                                                        *)

Byte == 0..255

RECURSIVE BitAnd(_, _)
BitAnd(a, b) ==
    IF a = 0 \/ b = 0 THEN 0
    ELSE (IF a % 2 = 1 /\ b % 2 = 1 THEN 1 ELSE 0) + 2 * BitAnd(a \div 2, b \div 2)

RECURSIVE BitOr(_, _)
BitOr(a, b) ==
    IF a = 0 THEN b
    ELSE IF b = 0 THEN a
    ELSE (IF a % 2 = 1 \/ b % 2 = 1 THEN 1 ELSE 0) + 2 * BitOr(a \div 2, b \div 2)

\* a | b, a & b and a & !b on words of equal width
Or(a, b) == [i \in DOMAIN a |-> BitOr(a[i], b[i])]
And(a, b) == [i \in DOMAIN a |-> BitAnd(a[i], b[i])]
AndNot(a, b) == [i \in DOMAIN a |-> a[i] - BitAnd(a[i], b[i])]

ZERO32 == <<\h00, \h00, \h00, \h00>>

\* `n as u32` for a count n
U32(n) == <<(n \div 16777216) % 256, (n \div 65536) % 256, (n \div 256) % 256, n % 256>>

\* `v as usize` for a u32 v below 2^31
AsUsize(v) == ((v[1] * 256 + v[2]) * 256 + v[3]) * 256 + v[4]

\* `v as u8` for a u32 v
AsU8(v) == v[4]

Reverse(s) == [i \in 1..Len(s) |-> s[Len(s) + 1 - i]]

\* uN::from_ne_bytes: the word a run of bytes in memory denotes on this host
from_ne_bytes(bytes) == IF endian = "little" THEN Reverse(bytes) ELSE bytes

\* uN::to_ne_bytes: the bytes in memory of a word on this host
to_ne_bytes(word) == IF endian = "little" THEN Reverse(word) ELSE word

Zeros(n) == [i \in 1..n |-> 0]

Min(a, b) == IF a < b THEN a ELSE b

---------------------------------------------------------------------------
(* Register map and interrupt taxonomy.                                    *)

RESET_MAGIC == <<\h00, \h00, \h00, \hA5>>

REG_INTERRUPT_STATUS == \h00
REG_INTERRUPT_ENABLE == \h04
REG_TX_RESET == \h08
REG_TX_VACANCY == \h0c
REG_TX_DATA == \h10
REG_TX_LENGTH == \h14
REG_RX_RESET == \h18
REG_RX_OCCUPANCY == \h1c
REG_RX_DATA == \h20
REG_RX_LENGTH == \h24
REG_AXI4_STREAM_RESET == \h28
REG_TX_DESTINATION == \h2c
REG_RX_DESTINATION == \h30

FULL_REG_WRITE == \h00000000
FULL_REG_READ == \h00001000

INTERRUPT_RX_UNDER_READ == <<\h80, \h00, \h00, \h00>>
INTERRUPT_RX_OVER_READ == <<\h40, \h00, \h00, \h00>>
INTERRUPT_RX_UNDER_RUN == <<\h20, \h00, \h00, \h00>>
INTERRUPT_TX_OVER_RUN == <<\h10, \h00, \h00, \h00>>
INTERRUPT_TX_COMPLETE == <<\h08, \h00, \h00, \h00>>
INTERRUPT_RX_COMPLETE == <<\h04, \h00, \h00, \h00>>
INTERRUPT_TX_LENGTH_MISMATCH == <<\h02, \h00, \h00, \h00>>
INTERRUPT_TX_RESET_COMPLETE == <<\h01, \h00, \h00, \h00>>
INTERRUPT_RX_RESET_COMPLETE == <<\h00, \h80, \h00, \h00>>
INTERRUPT_TX_PROGRAMMABLE_FULL == <<\h00, \h40, \h00, \h00>>
INTERRUPT_TX_PROGRAMMABLE_EMPTY == <<\h00, \h20, \h00, \h00>>
INTERRUPT_RX_PROGRAMMABLE_FULL == <<\h00, \h10, \h00, \h00>>
INTERRUPT_RX_PROGRAMMABLE_EMPTY == <<\h00, \h08, \h00, \h00>>

INTERRUPT_ALL ==
    Or(INTERRUPT_RX_PROGRAMMABLE_EMPTY,
    Or(INTERRUPT_RX_PROGRAMMABLE_FULL,
    Or(INTERRUPT_TX_PROGRAMMABLE_EMPTY,
    Or(INTERRUPT_TX_PROGRAMMABLE_FULL,
    Or(INTERRUPT_RX_RESET_COMPLETE,
    Or(INTERRUPT_TX_RESET_COMPLETE,
    Or(INTERRUPT_TX_LENGTH_MISMATCH,
    Or(INTERRUPT_RX_COMPLETE,
    Or(INTERRUPT_TX_COMPLETE,
    Or(INTERRUPT_TX_OVER_RUN,
    Or(INTERRUPT_RX_UNDER_RUN,
    Or(INTERRUPT_RX_OVER_READ,
       INTERRUPT_RX_UNDER_READ))))))))))))

INTERRUPT_RX_ERROR ==
    Or(INTERRUPT_RX_UNDER_RUN, Or(INTERRUPT_RX_OVER_READ, INTERRUPT_RX_UNDER_READ))

INTERRUPT_TX_ERROR == Or(INTERRUPT_TX_OVER_RUN, INTERRUPT_TX_LENGTH_MISMATCH)

---------------------------------------------------------------------------
(* Width descriptor.                                                       *)

StreamFifoValue == {"U32", "U64", "U128", "U256", "U512"}

byte_count(w) ==
    CASE w = "U32" -> 4
      [] w = "U64" -> 8
      [] w = "U128" -> 16
      [] w = "U256" -> 32
      [] w = "U512" -> 64

\* try_from_bits taking its argument for a byte count.
try_from_bytes(bits) ==
    CASE bits = 4 -> <<"U32">>
      [] bits = 8 -> <<"U64">>
      [] bits = 16 -> <<"U128">>
      [] bits = 32 -> <<"U256">>
      [] bits = 64 -> <<"U512">>
      [] OTHER -> <<>>

try_from_bits(bits) ==
    CASE bits = 32 -> <<"U32">>
      [] bits = 64 -> <<"U64">>
      [] bits = 128 -> <<"U128">>
      [] bits = 256 -> <<"U256">>
      [] bits = 512 -> <<"U512">>
      [] OTHER -> <<>>

---------------------------------------------------------------------------
(* The peripheral.  Its registers are reached only through bus accesses;   *)
(* INTERRUPT_STATUS is write-1-to-clear.                                   *)

\* One bus access.  ok = FALSE: the accessor returned an error.
Access(rw, map, off, size, val) ==
    [rw |-> rw, map |-> map, off |-> off, size |-> size, val |-> val, ok |-> TRUE]

WriteLite(off, val) == Access("W", "axi_lite", off, 4, val)
ReadLite(off, val) == Access("R", "axi_lite", off, 4, val)

\* The RX side with nothing received.
NoPacket == [occupancy |-> 0, length |-> ZERO32, destination |-> ZERO32, words |-> <<>>]

\* Effect of a write of RESET_MAGIC to one of the three reset registers: the
\* reset completes and the peripheral raises its reset-complete bits.
DevReset(d, off) ==
    IF off = REG_TX_RESET
    THEN [d EXCEPT !.isr = Or(@, INTERRUPT_TX_RESET_COMPLETE)]
    ELSE IF off = REG_RX_RESET
    THEN [d EXCEPT !.isr = Or(@, INTERRUPT_RX_RESET_COMPLETE)]
    ELSE [d EXCEPT !.isr = Or(@, Or(INTERRUPT_TX_RESET_COMPLETE, INTERRUPT_RX_RESET_COMPLETE))]

\* Effect of one successful bus access on the peripheral.
DevApply(d, a) ==
    IF a.rw = "W" /\ a.map = "axi_lite"
    THEN CASE a.off = REG_INTERRUPT_STATUS -> [d EXCEPT !.isr = AndNot(@, a.val)]
           [] a.off = REG_INTERRUPT_ENABLE -> [d EXCEPT !.ier = a.val]
           [] a.off \in {REG_AXI4_STREAM_RESET, REG_TX_RESET, REG_RX_RESET} ->
                IF a.val = RESET_MAGIC THEN DevReset(d, a.off) ELSE d
           [] OTHER -> d
    ELSE d

\* The RX FIFO after one successful bus access: a read of the data port pops
\* its front word.
RxApply(words, a) ==
    IF /\ a.rw = "R"
       /\ \/ a.map = "axi_lite" /\ a.off = REG_RX_DATA
          \/ a.map = "axi" /\ a.off = FULL_REG_READ
       /\ words # <<>>
    THEN Tail(words)
    ELSE words

---------------------------------------------------------------------------
(* Execution of a call: st is the state threaded through its bus accesses. *)
(*   dev   the peripheral's interrupt registers                            *)
(*   rx    the packet the peripheral presents on its RX side               *)
(*   bus   accesses issued so far in this call                             *)
(*   base  Len(bus) when the current action began                          *)
(*   fail  which access of the current action fails (0: none)              *)
(*   io    an access has failed: the `?` returns the error                 *)

Begin(d, rx, log, fail) ==
    [dev |-> d, rx |-> rx, bus |-> log, base |-> Len(log), fail |-> fail, io |-> FALSE]

\* An accessor call whose error is dropped instead of returned.
StepFrom_unchecked(st, a) ==
    IF Len(st.bus) + 1 - st.base = st.fail
    THEN [st EXCEPT !.bus = Append(@, [a EXCEPT !.ok = FALSE])]
    ELSE [st EXCEPT !.bus = Append(@, a), !.dev = DevApply(@, a),
                    !.rx.words = RxApply(@, a)]

\* One accessor call followed by `?`, from a given state.
StepFrom(st, a) ==
    IF st.io THEN st
    ELSE IF Len(st.bus) + 1 - st.base = st.fail
    THEN [st EXCEPT !.bus = Append(@, [a EXCEPT !.ok = FALSE]), !.io = TRUE]
    ELSE [st EXCEPT !.bus = Append(@, a), !.dev = DevApply(@, a),
                    !.rx.words = RxApply(@, a)]

\* The same, the state before and the access worked out once.
Step(st, a) == CHOOSE s \in {StepFrom(t, b) : t \in {st}, b \in {a}} : TRUE

RECURSIVE StepAll(_, _)
StepAll(st, as) == IF as = <<>> THEN st ELSE StepAll(Step(st, Head(as)), Tail(as))

\* Results of a call.
Ok(n, destination) == [tag |-> "Ok", n |-> n, destination |-> destination]
Err(e) == [tag |-> e, n |-> 0, destination |-> 0]

---------------------------------------------------------------------------
(* StreamFifo.                                                             *)

NoFifo == [some |-> FALSE, data_width |-> "U32", axi |-> FALSE]

\* try_from keeping the declared width on a device with a single map.
try_from_declared(maps, data_width, mapFail) ==
    IF maps >= 1 /\ mapFail = 0
    THEN [fifo |-> [some |-> TRUE, data_width |-> data_width, axi |-> maps >= 2],
          result |-> Ok(0, 0)]
    ELSE IF maps >= 1 THEN [fifo |-> NoFifo, result |-> Err("Uio")]
    ELSE [fifo |-> NoFifo, result |-> Err("NoMemoryMap")]

\* StreamFifo::try_from.  mapFail: which Map::try_from_device call fails (0: none).
try_from(maps, data_width, mapFail) ==
    IF maps >= 2
    THEN IF mapFail \in {1, 2}
         THEN [fifo |-> NoFifo, result |-> Err("Uio")]
         ELSE [fifo |-> [some |-> TRUE, data_width |-> data_width, axi |-> TRUE],
               result |-> Ok(0, 0)]
    ELSE IF maps = 1
    THEN IF mapFail = 1
         THEN [fifo |-> NoFifo, result |-> Err("Uio")]
         ELSE [fifo |-> [some |-> TRUE, data_width |-> "U32", axi |-> FALSE],
               result |-> Ok(0, 0)]
    ELSE [fifo |-> NoFifo, result |-> Err("NoMemoryMap")]

\* StreamFifo::data_width
data_width(f) == f.data_width

\* An enable mask without TX_LENGTH_MISMATCH.
ENABLE_MASK_short ==
    Or(INTERRUPT_TX_COMPLETE,
    Or(INTERRUPT_RX_COMPLETE,
    Or(INTERRUPT_RX_UNDER_READ,
    Or(INTERRUPT_RX_OVER_READ,
    Or(INTERRUPT_RX_UNDER_RUN, INTERRUPT_TX_OVER_RUN)))))

\* The value reset() writes to INTERRUPT_ENABLE.
ENABLE_MASK ==
    Or(INTERRUPT_TX_COMPLETE,
    Or(INTERRUPT_RX_COMPLETE,
    Or(INTERRUPT_RX_UNDER_READ,
    Or(INTERRUPT_RX_OVER_READ,
    Or(INTERRUPT_RX_UNDER_RUN,
    Or(INTERRUPT_TX_OVER_RUN,
       INTERRUPT_TX_LENGTH_MISMATCH))))))

\* interrupts_clear clearing only the interrupts that reset() enables.
interrupts_clear_enabled(st) == Step(st, WriteLite(REG_INTERRUPT_STATUS, ENABLE_MASK))

\* A TX interrupt clear that leaves TX_COMPLETE alone.
interrupts_clear_tx_errors(st) == Step(st, WriteLite(REG_INTERRUPT_STATUS, INTERRUPT_TX_ERROR))

\* StreamFifo::interrupts_clear, interrupts_clear_rx, interrupts_clear_tx
interrupts_clear(st) == Step(st, WriteLite(REG_INTERRUPT_STATUS, INTERRUPT_ALL))

interrupts_clear_rx(st) ==
    Step(st, WriteLite(REG_INTERRUPT_STATUS, Or(INTERRUPT_RX_ERROR, INTERRUPT_RX_COMPLETE)))

interrupts_clear_tx(st) ==
    Step(st, WriteLite(REG_INTERRUPT_STATUS, Or(INTERRUPT_TX_ERROR, INTERRUPT_TX_COMPLETE)))

\* reset resetting the RX side before the TX side.
reset_rx_first(st) ==
    LET s1 == Step(st, WriteLite(REG_AXI4_STREAM_RESET, RESET_MAGIC))
        s2 == Step(s1, WriteLite(REG_RX_RESET, RESET_MAGIC))
        s3 == Step(s2, WriteLite(REG_TX_RESET, RESET_MAGIC))
        s4 == Step(s3, WriteLite(REG_INTERRUPT_ENABLE, ENABLE_MASK))
    IN  interrupts_clear(s4)

\* StreamFifo::reset
reset(st) ==
    LET s1 == Step(st, WriteLite(REG_AXI4_STREAM_RESET, RESET_MAGIC))
        s2 == Step(s1, WriteLite(REG_TX_RESET, RESET_MAGIC))
        s3 == Step(s2, WriteLite(REG_RX_RESET, RESET_MAGIC))
        s4 == Step(s3, WriteLite(REG_INTERRUPT_ENABLE, ENABLE_MASK))
    IN  interrupts_clear(s4)

\* A destination written without the mask.
tx_destination_raw(destination) == <<\h00, \h00, \h00, destination>>

\* The value write_bytes writes to TX_DESTINATION.
tx_destination(destination) == <<\h00, \h00, \h00, BitAnd(destination, \h0f)>>

\* The length in 32-bit words.
tx_length_words(num_bytes) == U32((num_bytes + 3) \div 4)

\* The value write_bytes writes to TX_LENGTH: num_bytes as u32
tx_length(num_bytes) == U32(num_bytes)

\* (len + (fifo_word_size - 1)) / fifo_word_size
word_count(len, fifo_word_size) == (len + (fifo_word_size - 1)) \div fifo_word_size

\* data.chunks_exact(fifo_word_size) and its remainder()
chunks_exact(data, size) ==
    [k \in 1..(Len(data) \div size) |-> SubSeq(data, (k - 1) * size + 1, k * size)]

remainder(data, size) == SubSeq(data, (Len(data) \div size) * size + 1, Len(data))

\* A remainder padded from a buffer that is not zeroed.
part_stale(rem, size) == [i \in 1..size |-> IF i <= Len(rem) THEN rem[i] ELSE \hEE]

\* buffer[..remainder.len()].copy_from_slice(remainder); &buffer[..fifo_word_size]
\* with buffer = [0u8; 64]
part(rem, size) == [i \in 1..size |-> IF i <= Len(rem) THEN rem[i] ELSE 0]

\* A data word sent through TX_DATA whatever the handle.
tx_word_lite(f, bytes) == Access("W", "axi_lite", REG_TX_DATA, 4, from_ne_bytes(bytes))

\* One data word of write_bytes on its way to the data port.
tx_word(f, bytes) ==
    IF f.axi
    THEN Access("W", "axi", FULL_REG_WRITE, byte_count(f.data_width), from_ne_bytes(bytes))
    ELSE Access("W", "axi_lite", REG_TX_DATA, 4, from_ne_bytes(bytes))

\* Data-port writes for the full chunks only.
tx_words_chunks(f, data) ==
    LET size == byte_count(f.data_width)
    IN  [k \in 1..(Len(data) \div size) |-> tx_word(f, chunks_exact(data, size)[k])]

\* The data-port writes of write_bytes, in order: the full chunks, then the
\* zero-padded remainder.
tx_words(f, data) ==
    LET size == byte_count(f.data_width)
        rem == remainder(data, size)
        full == [k \in 1..(Len(data) \div size) |-> tx_word(f, chunks_exact(data, size)[k])]
    IN  IF Len(rem) > 0 THEN Append(full, tx_word(f, part(rem, size))) ELSE full

\* The width match of write_bytes reaches unimplemented!() (or, without a data
\* region, try_into().unwrap() fails) as soon as there is a word to emit.
tx_panics(f, data) ==
    /\ Len(data) > 0
    /\ IF f.axi THEN f.data_width \notin {"U32", "U64", "U128"}
                ELSE byte_count(f.data_width) # 4

\* A vacancy check that also refuses an exact fit.
tx_full_strict(vacancy, words) == vacancy <= words

\* if vacancy < word_count { return Err(Error::Full) }
tx_full(vacancy, words) == vacancy < words

\* write_bytes writing TX_LENGTH before the data words.
write_bytes_length_first(f, st, data, destination, vacancy) ==
    LET words == word_count(Len(data), byte_count(f.data_width))
        s1 == interrupts_clear_tx(st)
        s2 == Step(s1, ReadLite(REG_TX_VACANCY, U32(vacancy)))
        s3 == Step(s2, WriteLite(REG_TX_DESTINATION, tx_destination(destination)))
        s4 == Step(s3, WriteLite(REG_TX_LENGTH, tx_length(Len(data))))
        s5 == StepAll(s4, tx_words(f, data))
    IN  IF s2.io THEN [st |-> s2, pc |-> "done", result |-> Err("Io")]
        ELSE IF tx_full(vacancy, words)
        THEN [st |-> s2, pc |-> "done", result |-> Err("Full")]
        ELSE IF s4.io THEN [st |-> s4, pc |-> "done", result |-> Err("Io")]
        ELSE IF tx_panics(f, data) THEN [st |-> s4, pc |-> "done", result |-> Err("panic")]
        ELSE IF s5.io THEN [st |-> s5, pc |-> "done", result |-> Err("Io")]
        ELSE [st |-> s5, pc |-> "poll", result |-> Ok(Len(data), 0)]

\* StreamFifo::write_bytes up to and including the write of TX_LENGTH.
\* vacancy: the value the TX_VACANCY read returns.
write_bytes(f, st, data, destination, vacancy) ==
    LET fifo_word_size == byte_count(f.data_width)
        words == word_count(Len(data), fifo_word_size)
        s1 == interrupts_clear_tx(st)
        s2 == Step(s1, ReadLite(REG_TX_VACANCY, U32(vacancy)))
        s3 == Step(s2, WriteLite(REG_TX_DESTINATION, tx_destination(destination)))
        s4 == StepAll(s3, tx_words(f, data))
        s5 == Step(s4, WriteLite(REG_TX_LENGTH, tx_length(Len(data))))
    IN  IF s2.io THEN [st |-> s2, pc |-> "done", result |-> Err("Io")]
        ELSE IF tx_full(vacancy, words)
        THEN [st |-> s2, pc |-> "done", result |-> Err("Full")]
        ELSE IF s3.io THEN [st |-> s3, pc |-> "done", result |-> Err("Io")]
        ELSE IF tx_panics(f, data) THEN [st |-> s3, pc |-> "done", result |-> Err("panic")]
        ELSE IF s5.io THEN [st |-> s5, pc |-> "done", result |-> Err("Io")]
        ELSE [st |-> s5, pc |-> "poll", result |-> Ok(Len(data), 0)]

\* A TX classification that looks at TX_LENGTH_MISMATCH first.
tx_error_mismatch_first(interrupts) ==
    IF And(interrupts, INTERRUPT_TX_LENGTH_MISMATCH) = INTERRUPT_TX_LENGTH_MISMATCH
    THEN Err("LengthMismatch")
    ELSE IF And(interrupts, INTERRUPT_TX_OVER_RUN) = INTERRUPT_TX_OVER_RUN THEN Err("OverRun")
    ELSE Err("panic")

\* Classification of a TX error status.
tx_error(interrupts) ==
    IF And(interrupts, INTERRUPT_TX_OVER_RUN) = INTERRUPT_TX_OVER_RUN THEN Err("OverRun")
    ELSE IF And(interrupts, INTERRUPT_TX_LENGTH_MISMATCH) = INTERRUPT_TX_LENGTH_MISMATCH
    THEN Err("LengthMismatch")
    ELSE Err("panic")

\* A polling loop that gives up after one poll.
write_poll_once(st, num_bytes) ==
    LET interrupts == st.dev.isr
        s1 == Step(st, ReadLite(REG_INTERRUPT_STATUS, interrupts))
        s2 == reset(s1)
    IN  IF s1.io THEN [st |-> s1, pc |-> "done", result |-> Err("Io")]
        ELSE IF And(interrupts, INTERRUPT_TX_ERROR) # ZERO32
        THEN IF s2.io THEN [st |-> s2, pc |-> "done", result |-> Err("Io")]
             ELSE [st |-> s2, pc |-> "done", result |-> tx_error(interrupts)]
        ELSE [st |-> s1, pc |-> "done", result |-> Ok(num_bytes, 0)]

\* One iteration of the polling loop of write_bytes.
write_poll(st, num_bytes) ==
    LET interrupts == st.dev.isr
        s1 == Step(st, ReadLite(REG_INTERRUPT_STATUS, interrupts))
        s2 == reset(s1)
    IN  IF s1.io THEN [st |-> s1, pc |-> "done", result |-> Err("Io")]
        ELSE IF And(interrupts, INTERRUPT_TX_ERROR) # ZERO32
        THEN IF s2.io THEN [st |-> s2, pc |-> "done", result |-> Err("Io")]
             ELSE [st |-> s2, pc |-> "done", result |-> tx_error(interrupts)]
        ELSE IF And(interrupts, INTERRUPT_TX_COMPLETE) # ZERO32
        THEN [st |-> s1, pc |-> "done", result |-> Ok(num_bytes, 0)]
        ELSE [st |-> s1, pc |-> "poll", result |-> Ok(num_bytes, 0)]

RX_LENGTH_MASK == <<\h00, \h3f, \hff, \hff>>

\* The word the data port presents to the next read.
rx_front(rx, size) == IF rx.words # <<>> THEN Head(rx.words) ELSE Zeros(size)

\* One data word of read_bytes on its way from the data port; bytes: the run
\* of bytes read_exact returns.
rx_word(f, rx) ==
    IF f.axi
    THEN LET size == byte_count(f.data_width)
         IN  Access("R", "axi", FULL_REG_READ, size, to_ne_bytes(rx_front(rx, size)))
    ELSE Access("R", "axi_lite", REG_RX_DATA, 4, rx_front(rx, 4))

\* The bytes one iteration of the drain loop stores at data[offset..].
rx_store(f, a) ==
    IF f.axi THEN to_ne_bytes(from_ne_bytes(a.val)) ELSE to_ne_bytes(a.val)

\* A drain loop that takes every width.
rx_unimplemented_never(f) == FALSE

\* The drain loop reaches unimplemented!() for this width.
rx_unimplemented(f) == f.axi /\ f.data_width \notin {"U32", "U64", "U128"}

\* data[offset..offset + fifo_word_size].copy_from_slice(bytes)
copy_from_slice(data, offset, bytes) ==
    [i \in 1..Len(data) |->
        IF i > offset /\ i <= offset + Len(bytes) THEN bytes[i - offset] ELSE data[i]]

\* The drain loop of read_bytes from iteration n on.  r: the loop's state,
\* [st, data, panic].
RECURSIVE rx_drain(_, _, _, _)
rx_drain(f, r, n, read_count) ==
    IF n >= read_count \/ r.st.io \/ r.panic THEN r
    ELSE LET fifo_word_size == byte_count(f.data_width)
             offset == n * fifo_word_size
             a == rx_word(f, r.st.rx)
             s == Step(r.st, a)
             bytes == rx_store(f, a)
         IN  IF s.io THEN [r EXCEPT !.st = s]
             ELSE IF \/ rx_unimplemented(f)
                     \/ offset + fifo_word_size > Len(r.data)
                     \/ Len(bytes) # fifo_word_size
             THEN [r EXCEPT !.st = s, !.panic = TRUE]
             ELSE rx_drain(f, [r EXCEPT !.st = s,
                                        !.data = copy_from_slice(@, offset, bytes)],
                           n + 1, read_count)

\* An occupancy check that never reports an empty FIFO.
rx_empty_never(occupancy) == FALSE

\* if occupancy == 0 { return Err(Error::Empty) }
rx_empty(occupancy) == occupancy = 0

\* An RX classification that looks at the under-read and under-run bits first.
rx_error_under_first(interrupts) ==
    IF \/ And(interrupts, INTERRUPT_RX_UNDER_READ) = INTERRUPT_RX_UNDER_READ
       \/ And(interrupts, INTERRUPT_RX_UNDER_RUN) = INTERRUPT_RX_UNDER_RUN
    THEN Err("UnderRun")
    ELSE IF And(interrupts, INTERRUPT_RX_OVER_READ) = INTERRUPT_RX_OVER_READ
    THEN Err("OverRun")
    ELSE Err("panic")

\* Classification of an RX error status.
rx_error(interrupts) ==
    IF And(interrupts, INTERRUPT_RX_OVER_READ) = INTERRUPT_RX_OVER_READ THEN Err("OverRun")
    ELSE IF \/ And(interrupts, INTERRUPT_RX_UNDER_READ) = INTERRUPT_RX_UNDER_READ
            \/ And(interrupts, INTERRUPT_RX_UNDER_RUN) = INTERRUPT_RX_UNDER_RUN
    THEN Err("UnderRun")
    ELSE Err("panic")

\* StreamFifo::read_bytes.  raised: the status bits the peripheral raises while
\* the packet is drained.
read_bytes(f, st, data, raised) ==
    LET occupancy == st.rx.occupancy
        s1 == Step(st, ReadLite(REG_RX_OCCUPANCY, U32(occupancy)))
        s2 == interrupts_clear_rx(s1)
        s3 == Step(s2, ReadLite(REG_RX_LENGTH, st.rx.length))
        packet_bytes == AsUsize(And(st.rx.length, RX_LENGTH_MASK))
        n_bytes == Min(Len(data), packet_bytes)
        s4 == Step(s3, ReadLite(REG_RX_DESTINATION, st.rx.destination))
        destination == AsU8(st.rx.destination)
        fifo_word_size == byte_count(f.data_width)
        read_count == word_count(n_bytes, fifo_word_size)
        r == rx_drain(f, [st |-> s4, data |-> data, panic |-> FALSE], 0, read_count)
        s5 == [r.st EXCEPT !.dev.isr = Or(@, raised)]
        interrupts == s5.dev.isr
        s6 == Step(s5, ReadLite(REG_INTERRUPT_STATUS, interrupts))
        s7 == reset(s6)
    IN  IF s1.io THEN [st |-> s1, data |-> data, result |-> Err("Io")]
        ELSE IF rx_empty(occupancy)
        THEN [st |-> s1, data |-> data, result |-> Err("Empty")]
        ELSE IF s4.io THEN [st |-> s4, data |-> data, result |-> Err("Io")]
        ELSE IF r.st.io THEN [st |-> r.st, data |-> r.data, result |-> Err("Io")]
        ELSE IF r.panic THEN [st |-> r.st, data |-> r.data, result |-> Err("panic")]
        ELSE IF s6.io THEN [st |-> s6, data |-> r.data, result |-> Err("Io")]
        ELSE IF And(interrupts, INTERRUPT_RX_ERROR) # ZERO32
        THEN IF s7.io THEN [st |-> s7, data |-> r.data, result |-> Err("Io")]
             ELSE [st |-> s7, data |-> r.data, result |-> rx_error(interrupts)]
        ELSE [st |-> s6, data |-> r.data, result |-> Ok(n_bytes, destination)]

---------------------------------------------------------------------------
(* Inputs.                                                                 *)

\* A payload of n bytes: seed, seed + 1, ... (wrapping at 256), as the fifo
\* tool fills its words.
Payload(seed, n) == [i \in 1..n |-> (seed + i - 1) % 256]

\* A caller's buffer of n bytes before read_bytes.
Buffer(n) == [i \in 1..n |-> \hEE]

\* Byte counts of payloads, packets and buffers for FIFO words of size bytes:
\* every count of whole words and spare bytes within the bounds, or only the
\* two extremes.
Lengths(size) == {k * size + r : k \in 0..MaxChunks, r \in 0..MaxRem}
FewLengths(size) == {0, MaxChunks * size + MaxRem}

Seed == \h01

\* Bit counts given to try_from_bits.
BitCounts == (0..MaxBits) \cup {1024, 2048, 4096, 65536}
Destinations == {\h23, \hf0}
Endians == {"little", "big"}

\* Status and enable mask left by firmware before the driver starts.
StaleStatus == INTERRUPT_ALL
StaleEnable == Or(INTERRUPT_TX_RESET_COMPLETE, INTERRUPT_RX_COMPLETE)

\* Status bits the peripheral raises while a packet is drained.
RxRaised ==
    {ZERO32, INTERRUPT_RX_OVER_READ, INTERRUPT_RX_UNDER_RUN, INTERRUPT_RX_UNDER_READ,
     Or(INTERRUPT_RX_OVER_READ, INTERRUPT_RX_UNDER_READ)}

\* Every combination of the three RX error bits.
RxErrors ==
    {Or(a, Or(b, c)) : a \in {ZERO32, INTERRUPT_RX_OVER_READ},
                       b \in {ZERO32, INTERRUPT_RX_UNDER_RUN},
                       c \in {ZERO32, INTERRUPT_RX_UNDER_READ}}

\* Status bits the peripheral raises after TX_LENGTH is written.
TxRaised == {INTERRUPT_TX_COMPLETE, INTERRUPT_TX_OVER_RUN, INTERRUPT_TX_LENGTH_MISMATCH}

\* The words of a packet of n bytes in a FIFO of the handle's width.
RxWords(f, n) ==
    LET size == byte_count(f.data_width)
        data == Payload(Seed, n)
        rem == remainder(data, size)
        full == [k \in 1..(n \div size) |-> from_ne_bytes(chunks_exact(data, size)[k])]
    IN  IF Len(rem) > 0 THEN Append(full, from_ne_bytes(part(rem, size))) ELSE full

\* The packet the peripheral presents to read_bytes: n bytes, the RX_LENGTH
\* and RX_DESTINATION registers plain, or with bits set above the 22-bit
\* length field and above the low byte of the destination.
RxPacket(f, n, occupancy, plain) ==
    [occupancy |-> occupancy,
     length |-> IF plain THEN U32(n) ELSE Or(U32(n), <<\h80, \h40, \h00, \h00>>),
     destination |-> IF plain THEN <<\h00, \h00, \h00, \h07>>
                              ELSE <<\h00, \h00, \h01, \hA5>>,
     words |-> RxWords(f, n)]

---------------------------------------------------------------------------
(* State machine.                                                          *)

NoCall ==
    [op |-> "none", pc |-> "done", result |-> Ok(0, 0), width |-> "U32",
     data |-> <<>>, destination |-> 0, out |-> <<>>, polls |-> 0, bits |-> 0,
     stale |-> ZERO32, raised |-> ZERO32]

\* A device that was just opened, on a host of the given byte orders.
Start(endians) ==
    /\ endian \in endians
    /\ nMaps \in 0..MaxMaps
    /\ fifo = NoFifo
    /\ dev = [ier |-> StaleEnable, isr |-> StaleStatus]
    /\ call = NoCall
    /\ bus = <<>>

\* The handle exists and no call on it is in progress.
Idle == fifo.some /\ call.pc = "done" /\ call.op \in {"none", "try_from"}

\* StreamFifo::try_from(device, data_width)
TryFrom ==
    /\ ~fifo.some /\ call.op = "none"
    /\ \E w \in StreamFifoValue, mapFail \in 0..2 :
          LET r == try_from(nMaps, w, mapFail)
          IN  /\ fifo' = r.fifo
              /\ call' = [NoCall EXCEPT !.op = "try_from", !.result = r.result, !.width = w]
    /\ bus' = <<>>
    /\ UNCHANGED <<endian, nMaps, dev>>

\* StreamFifo::reset()
Reset ==
    /\ Idle
    /\ \E fail \in 0..MaxFail :
          LET s == reset(Begin(dev, NoPacket, <<>>, fail))
          IN  /\ dev' = s.dev
              /\ bus' = s.bus
              /\ call' = [NoCall EXCEPT !.op = "reset",
                                        !.result = IF s.io THEN Err("Io") ELSE Ok(0, 0)]
    /\ UNCHANGED <<endian, nMaps, fifo>>

\* StreamFifo::interrupts_clear(), interrupts_clear_rx(), interrupts_clear_tx()
InterruptsClear ==
    /\ Idle
    /\ \E op \in {"interrupts_clear", "interrupts_clear_rx", "interrupts_clear_tx"},
          fail \in 0..1 :
          LET st == Begin(dev, NoPacket, <<>>, fail)
              s == CASE op = "interrupts_clear" -> interrupts_clear(st)
                     [] op = "interrupts_clear_rx" -> interrupts_clear_rx(st)
                     [] op = "interrupts_clear_tx" -> interrupts_clear_tx(st)
          IN  /\ dev' = s.dev
              /\ bus' = s.bus
              /\ call' = [NoCall EXCEPT !.op = op,
                                        !.result = IF s.io THEN Err("Io") ELSE Ok(0, 0)]
    /\ UNCHANGED <<endian, nMaps, fifo>>

\* StreamFifo::write_bytes(data, destination), to the write of TX_LENGTH, for
\* payload lengths, destinations, TX_VACANCY values and failing bus accesses
\* from the given sets
WriteBytes(lengths, destinations, vacancies, fails) ==
    /\ Idle
    /\ \E n \in lengths, destination \in destinations, vacancy \in vacancies,
          fail \in fails :
          LET data == Payload(Seed, n)
              r == write_bytes(fifo, Begin(dev, NoPacket, <<>>, fail), data,
                               destination, vacancy)
          IN  /\ dev' = r.st.dev
              /\ bus' = r.st.bus
              /\ call' = [NoCall EXCEPT !.op = "write_bytes", !.pc = r.pc,
                                        !.result = r.result, !.data = data,
                                        !.destination = destination,
                                        !.stale = dev.isr]
    /\ UNCHANGED <<endian, nMaps, fifo>>

\* StreamFifo::write_bytes, one iteration of its polling loop, in which the
\* bus access of the given places may fail
WritePoll(fails) ==
    /\ fifo.some /\ call.op = "write_bytes" /\ call.pc = "poll"
    /\ \E fail \in fails :
          LET r == write_poll(Begin(dev, NoPacket, bus, fail), Len(call.data))
          IN  /\ r.pc = "poll" => call.polls < MaxPolls
              /\ dev' = r.st.dev
              /\ bus' = r.st.bus
              /\ call' = [call EXCEPT !.pc = r.pc, !.result = r.result,
                                      !.polls = IF r.pc = "poll" THEN @ + 1 ELSE @]
    /\ UNCHANGED <<endian, nMaps, fifo>>

\* StreamFifo::read_bytes(data) with the RX side empty: RX_OCCUPANCY reads 0
ReadEmpty(lengths) ==
    /\ Idle
    /\ \E len \in lengths, fail \in 0..1 :
          LET r == read_bytes(fifo, Begin(dev, NoPacket, <<>>, fail), Buffer(len), ZERO32)
          IN  /\ dev' = r.st.dev
              /\ bus' = r.st.bus
              /\ call' = [NoCall EXCEPT !.op = "read_bytes", !.result = r.result,
                                        !.data = Buffer(len), !.out = r.data,
                                        !.stale = dev.isr]
    /\ UNCHANGED <<endian, nMaps, fifo>>

\* StreamFifo::read_bytes(data), the peripheral presenting a packet, for
\* buffer and packet lengths, raised status bits and failing bus accesses from
\* the given sets
ReadBytes(lengths, packets, raisings, fails) ==
    /\ Idle
    /\ \E len \in lengths, n \in packets, occupancy \in 1..MaxWords,
          raised \in raisings, fail \in fails :
          LET rx == RxPacket(fifo, n, occupancy, occupancy = 1)
              r == read_bytes(fifo, Begin(dev, rx, <<>>, fail), Buffer(len), raised)
          IN  /\ dev' = r.st.dev
              /\ bus' = r.st.bus
              /\ call' = [NoCall EXCEPT !.op = "read_bytes", !.result = r.result,
                                        !.data = Buffer(len), !.out = r.data,
                                        !.stale = dev.isr, !.raised = raised]
    /\ UNCHANGED <<endian, nMaps, fifo>>

\* The call returns its result and the caller goes on to use the handle.  A
\* panic does not return, and after an I/O error the caller gives the handle
\* up, as the fifo tool does.
Return ==
    /\ call.op # "none" /\ call.pc = "done" /\ call.result.tag \notin {"panic", "Io"}
    /\ call' = NoCall
    /\ bus' = <<>>
    /\ UNCHANGED <<endian, nMaps, fifo, dev>>

\* The peripheral raises one of the given TX status bits for the packet being
\* transmitted.
DeviceRaise(bits) ==
    /\ fifo.some /\ call.op = "write_bytes" /\ call.pc = "poll"
    /\ \E b \in bits :
          /\ And(dev.isr, b) = ZERO32
          /\ dev' = [dev EXCEPT !.isr = Or(@, b)]
          /\ call' = [call EXCEPT !.raised = Or(@, b)]
    /\ UNCHANGED <<endian, nMaps, fifo, bus>>

fifo_word_size == byte_count(fifo.data_width)

\* w.byte_count() and StreamFifoValue::try_from_bits(8 * w.byte_count()) for
\* a width w
ByteCount ==
    /\ ~fifo.some /\ call.op = "none"
    /\ \E w \in StreamFifoValue :
          call' = [NoCall EXCEPT !.op = "byte_count", !.width = w,
                                 !.result = Ok(byte_count(w), 0),
                                 !.bits = 8 * byte_count(w),
                                 !.out = try_from_bits(8 * byte_count(w))]
    /\ UNCHANGED <<endian, nMaps, fifo, dev, bus>>

\* StreamFifoValue::try_from_bits(bits)
TryFromBits ==
    /\ ~fifo.some /\ call.op = "none"
    /\ \E bits \in BitCounts :
          call' = [NoCall EXCEPT !.op = "try_from_bits", !.bits = bits,
                                 !.out = try_from_bits(bits)]
    /\ UNCHANGED <<endian, nMaps, fifo, dev, bus>>

\* The packet a peripheral wired as a loopback presents after a write_bytes
\* call: the words, length and destination that call wrote.
Loopback(log) ==
    LET words == SelectSeq(log, LAMBDA a : a.rw = "W" /\ a.ok /\
                                 \/ a.map = "axi" /\ a.off = FULL_REG_WRITE
                                 \/ a.map = "axi_lite" /\ a.off = REG_TX_DATA)
        length == SelectSeq(log, LAMBDA a : a.rw = "W" /\ a.map = "axi_lite"
                                            /\ a.off = REG_TX_LENGTH)
        dest == SelectSeq(log, LAMBDA a : a.rw = "W" /\ a.map = "axi_lite"
                                          /\ a.off = REG_TX_DESTINATION)
    IN  [occupancy |-> IF Len(words) = 0 THEN 1 ELSE Len(words),
         length |-> length[1].val,
         destination |-> dest[1].val,
         words |-> [k \in 1..Len(words) |-> words[k].val]]

\* StreamFifo::read_bytes(buffer) after a write_bytes call that succeeded, on
\* a peripheral wired as a loopback; the buffer holds the packet, with spare
\* bytes from the given set.  The call record keeps the data written.
ReadBack(spares, fails) ==
    /\ fifo.some /\ call.op = "write_bytes" /\ call.pc = "done" /\ call.result.tag = "Ok"
    /\ \E spare \in spares, fail \in fails :
          LET buffer == Buffer(Len(call.data) + spare)
              r == read_bytes(fifo, Begin(dev, Loopback(bus), <<>>, fail), buffer, ZERO32)
          IN  /\ dev' = r.st.dev
              /\ bus' = r.st.bus
              /\ call' = [call EXCEPT !.op = "read_back", !.result = r.result,
                                      !.out = r.data]
    /\ UNCHANGED <<endian, nMaps, fifo>>

\* A handle in use over time on the arm64 target: any sequence of calls, short
\* payloads.
Init == Start({"little"})

Next ==
    \/ TryFrom
    \/ Reset
    \/ InterruptsClear
    \/ WriteBytes(FewLengths(fifo_word_size), {\h23}, {0, MaxWords}, 0..MaxFail)
    \/ WritePoll(0..MaxFail)
    \/ ReadEmpty(FewLengths(fifo_word_size))
    \/ ReadBytes(FewLengths(fifo_word_size), {fifo_word_size + 1}, RxRaised, 0..MaxFail)
    \/ Return
    \/ DeviceRaise(TxRaised)

Spec == Init /\ [][Next]_vars

\* The fifo tool's use of a handle: one call on a new handle, payloads, packets
\* and buffers of every length within the bounds, hosts of either byte order.
DataInit == Start(Endians)

DataNext ==
    \/ TryFrom
    \/ WriteBytes(Lengths(fifo_word_size), Destinations, 0..MaxWords, 0..MaxFail)
    \/ WritePoll({0})
    \/ ReadEmpty(Lengths(fifo_word_size))
    \/ ReadBytes(Lengths(fifo_word_size), Lengths(fifo_word_size),
                 {ZERO32, INTERRUPT_RX_UNDER_RUN}, 0..MaxFail)
    \/ DeviceRaise({INTERRUPT_TX_COMPLETE})

DataSpec == DataInit /\ [][DataNext]_vars

\* write_bytes on a new handle with every destination byte.
DestNext ==
    \/ TryFrom
    \/ WriteBytes(FewLengths(fifo_word_size), Byte, {MaxWords}, {0, 3})

DestSpec == Init /\ [][DestNext]_vars

\* read_bytes on a new handle with every combination of RX error bits raised
\* while the packet is drained, a bus access failing anywhere up to the end of
\* the reset that follows the status read.
RxErrNext ==
    \/ TryFrom
    \/ ReadBytes({0, fifo_word_size}, {fifo_word_size + 1}, RxErrors, 0..(MaxFail + 5))

RxErrSpec == Init /\ [][RxErrNext]_vars

\* The width functions alone, before a handle is made.
WidthNext == ByteCount \/ TryFromBits

WidthSpec == Init /\ [][WidthNext]_vars

\* reset, write_bytes and read_bytes with a bus access failing anywhere, the
\* resets that follow a TX or RX error included.
FailNext ==
    \/ TryFrom
    \/ Reset
    \/ WriteBytes(FewLengths(fifo_word_size), {\h23}, {MaxWords}, 0..(MaxFail + 1))
    \/ WritePoll(0..(MaxFail + 1))
    \/ DeviceRaise(TxRaised)
    \/ ReadBytes({0, fifo_word_size}, {fifo_word_size + 1},
                 {ZERO32, INTERRUPT_RX_OVER_READ}, 0..(MaxFail + 5))
    \/ Return

FailSpec == Init /\ [][FailNext]_vars

\* write_bytes calls on a peripheral that does raise TX_COMPLETE or a TX error
\* bit for each packet, the polling loop running on.
LiveNext ==
    \/ TryFrom
    \/ WriteBytes(FewLengths(fifo_word_size), {\h23}, {MaxWords}, {0})
    \/ WritePoll({0, 1})
    \/ DeviceRaise(TxRaised)
    \/ Return

LiveSpec ==
    /\ Init /\ [][LiveNext]_vars
    /\ WF_vars(WritePoll({0, 1}))
    /\ WF_vars(DeviceRaise(TxRaised))

\* write_bytes on a new handle, then read_bytes of the same packet through a
\* loopback, hosts of either byte order.
LoopNext ==
    \/ TryFrom
    \/ WriteBytes(Lengths(fifo_word_size), Destinations, {MaxWords}, {0})
    \/ DeviceRaise({INTERRUPT_TX_COMPLETE})
    \/ WritePoll({0})
    \/ ReadBack({0, MaxRem, fifo_word_size}, 0..MaxFail)

LoopSpec == DataInit /\ [][LoopNext]_vars

---------------------------------------------------------------------------
(* Properties.                                                             *)

\* The call op has ended with the given result tag.
Ended(op, tag) == call.op = op /\ call.pc = "done" /\ call.result.tag = tag

\* The places in the bus log of the accesses satisfying P.
Places(P(_)) == {i \in DOMAIN bus : P(bus[i])}

IsWrite(a, off) == a.rw = "W" /\ a.map = "axi_lite" /\ a.off = off
IsRead(a, off) == a.rw = "R" /\ a.map = "axi_lite" /\ a.off = off
IsDataWrite(a) ==
    /\ a.rw = "W"
    /\ \/ a.map = "axi" /\ a.off = FULL_REG_WRITE
       \/ a.map = "axi_lite" /\ a.off = REG_TX_DATA

\* C1 (first part): try_from on a device with no map fails with NoMemoryMap;
\* with one map a handle it yields has width U32 and no data region, whatever
\* width was declared; with two or more maps a handle it yields has the
\* declared width and a data region.
C1_Construction ==
    call.op = "try_from" =>
        /\ nMaps = 0 => call.result.tag = "NoMemoryMap" /\ ~fifo.some
        /\ call.result.tag = "Ok" <=> fifo.some
        /\ fifo.some /\ nMaps = 1 => data_width(fifo) = "U32" /\ ~fifo.axi
        /\ fifo.some /\ nMaps >= 2 => data_width(fifo) = call.width /\ fifo.axi

\* C1: construction fixes the width as C1_Construction says, and no later
\* step (reset, interrupts_clear*, write_bytes, read_bytes) changes what
\* data_width() returns.
C1_WidthFixedAtConstruction ==
    /\ []C1_Construction
    /\ [][fifo.some => fifo'.some /\ data_width(fifo') = data_width(fifo)]_vars

\* try_from with U512 declared on a one-map device has yielded a handle, and
\* the handle reports U32.
C1_Witness ==
    /\ call.op = "try_from" /\ call.width = "U512" /\ nMaps = 1
    /\ fifo.some /\ data_width(fifo) = "U32" /\ ~fifo.axi

\* C2: a successful reset() issues exactly five bus accesses, all writes to
\* the control region, in this order: RESET_MAGIC (0xA5) to AXI4_STREAM_RESET,
\* to TX_RESET and to RX_RESET, the enable mask to INTERRUPT_ENABLE, and
\* INTERRUPT_ALL to INTERRUPT_STATUS.
C2_ResetShape ==
    Ended("reset", "Ok") =>
        /\ Len(bus) = 5
        /\ \A i \in 1..5 : bus[i].ok /\ bus[i].rw = "W" /\ bus[i].map = "axi_lite"
                           /\ bus[i].size = 4
        /\ <<bus[1].off, bus[2].off, bus[3].off, bus[4].off, bus[5].off>>
             = <<\h28, \h08, \h18, \h04, \h00>>
        /\ \A i \in 1..3 : bus[i].val = <<\h00, \h00, \h00, \hA5>>
        /\ bus[4].val = ENABLE_MASK
        /\ bus[5].val = INTERRUPT_ALL

C2_Witness == Ended("reset", "Ok") /\ Len(bus) = 5

\* C3 as stated: the value reset() writes to INTERRUPT_ENABLE is 0xBA600000.
C3_EnableMaskBA60 ==
    Ended("reset", "Ok") =>
        \A i \in Places(LAMBDA a : IsWrite(a, REG_INTERRUPT_ENABLE)) :
            bus[i].val = <<\hBA, \h60, \h00, \h00>>

\* C3 amended: the value reset() writes to INTERRUPT_ENABLE, the OR of
\* TX_COMPLETE, RX_COMPLETE, RX_UNDER_READ, RX_OVER_READ, RX_UNDER_RUN,
\* TX_OVER_RUN and TX_LENGTH_MISMATCH, is 0xFE000000.
C3_EnableMaskFE00 ==
    Ended("reset", "Ok") =>
        /\ Places(LAMBDA a : IsWrite(a, REG_INTERRUPT_ENABLE)) # {}
        /\ \A i \in Places(LAMBDA a : IsWrite(a, REG_INTERRUPT_ENABLE)) :
              bus[i].val = <<\hFE, \h00, \h00, \h00>>

C3_Witness ==
    /\ Ended("reset", "Ok")
    /\ \E i \in DOMAIN bus : IsWrite(bus[i], REG_INTERRUPT_ENABLE) /\ bus[i].ok

\* The thirteen interrupt bits and the seven that reset() enables.
InterruptBits ==
    {INTERRUPT_RX_UNDER_READ, INTERRUPT_RX_OVER_READ, INTERRUPT_RX_UNDER_RUN,
     INTERRUPT_TX_OVER_RUN, INTERRUPT_TX_COMPLETE, INTERRUPT_RX_COMPLETE,
     INTERRUPT_TX_LENGTH_MISMATCH, INTERRUPT_TX_RESET_COMPLETE,
     INTERRUPT_RX_RESET_COMPLETE, INTERRUPT_TX_PROGRAMMABLE_FULL,
     INTERRUPT_TX_PROGRAMMABLE_EMPTY, INTERRUPT_RX_PROGRAMMABLE_FULL,
     INTERRUPT_RX_PROGRAMMABLE_EMPTY}

EnabledBits ==
    {INTERRUPT_TX_COMPLETE, INTERRUPT_RX_COMPLETE, INTERRUPT_RX_UNDER_READ,
     INTERRUPT_RX_OVER_READ, INTERRUPT_RX_UNDER_RUN, INTERRUPT_TX_OVER_RUN,
     INTERRUPT_TX_LENGTH_MISMATCH}

\* C4: when reset() returns success, whatever the enable mask and pending
\* status were before, the enable register holds exactly the seven bits of
\* EnabledBits and no status bit is pending (so a second reset() leaves the
\* same registers).
C4_ResetRegisters ==
    Ended("reset", "Ok") =>
        /\ \A b \in InterruptBits : And(dev.ier, b) = b <=> b \in EnabledBits
        /\ \A i \in 1..4, k \in 0..7 :
              BitAnd(dev.ier[i], 2 ^ k) # 0 =>
                 \E b \in EnabledBits : BitAnd(b[i], 2 ^ k) # 0
        /\ dev.isr = ZERO32

C4_Witness == Ended("reset", "Ok") /\ dev.isr = ZERO32 /\ dev.ier # StaleEnable

\* ceil(n / w)
CeilDiv(n, w) == IF n % w = 0 THEN n \div w ELSE n \div w + 1

\* W, the byte count of the handle's width.
W == CASE data_width(fifo) = "U32" -> 4 [] data_width(fifo) = "U64" -> 8
       [] data_width(fifo) = "U128" -> 16 [] data_width(fifo) = "U256" -> 32
       [] data_width(fifo) = "U512" -> 64

\* C5: if the read of RX_OCCUPANCY returns 0, read_bytes returns Empty, that
\* read is the only bus access of the call, and the caller's buffer is
\* unchanged; for every buffer length and every width.
C5_EmptyRead ==
    /\ call.op = "read_bytes" /\ call.pc = "done"
    /\ Len(bus) >= 1 /\ bus[1].ok /\ IsRead(bus[1], REG_RX_OCCUPANCY)
    /\ bus[1].val = <<0, 0, 0, 0>>
    => /\ call.result.tag = "Empty"
       /\ Len(bus) = 1
       /\ call.out = call.data

\* read_bytes on an empty FIFO of a 128-bit handle with a data region and a
\* buffer of one word and a byte has returned Empty.
C5_Witness ==
    /\ Ended("read_bytes", "Empty") /\ fifo.axi /\ data_width(fifo) = "U128"
    /\ Len(call.data) = 17 /\ bus[1].val = <<0, 0, 0, 0>>

\* The write_bytes call has read TX_VACANCY.
VacancyRead == call.op = "write_bytes" /\ Len(bus) >= 2 /\ bus[2].ok
               /\ IsRead(bus[2], REG_TX_VACANCY)

\* The value of that read (a small number in the low byte).
Vacancy == bus[2].val[4]

\* The write_bytes call has passed the vacancy check.
VacancyPassed == VacancyRead /\ Vacancy >= CeilDiv(Len(call.data), W)

\* No bus access of the call failed.
AllOk == \A i \in DOMAIN bus : bus[i].ok

\* C6: if the TX_VACANCY value read by write_bytes is less than
\* ceil(len(data)/W), write_bytes returns Full and writes neither a data word
\* nor TX_LENGTH; if it is at least ceil(len(data)/W), the call never returns
\* Full.
C6_VacancyCheck ==
    VacancyRead =>
        IF Vacancy < CeilDiv(Len(call.data), W)
        THEN /\ Ended("write_bytes", "Full")
             /\ Places(IsDataWrite) = {}
             /\ Places(LAMBDA a : IsWrite(a, REG_TX_LENGTH)) = {}
        ELSE call.result.tag # "Full"

\* A payload of one word and a byte met a vacancy of one word and was refused.
C6_Witness ==
    /\ Ended("write_bytes", "Full") /\ VacancyRead /\ Vacancy = 1
    /\ Len(call.data) = W + 1

\* The data words that reached the data port in this call.
Pushed == Cardinality({i \in Places(IsDataWrite) : bus[i].ok})

LengthWritten ==
    /\ Cardinality(Places(LAMBDA a : IsWrite(a, REG_TX_LENGTH))) = 1
    /\ \A i \in Places(LAMBDA a : IsWrite(a, REG_TX_LENGTH)) :
          bus[i].val = <<0, 0, 0, Len(call.data)>>

\* C8 as stated: in every write_bytes call that passes the vacancy check and
\* whose bus accesses succeed, TX_LENGTH is written exactly once with
\* len(data), and a call that ends with TX_COMPLETE returns Ok(len(data)).
C8_LengthIsByteCount ==
    /\ VacancyPassed /\ AllOk => LengthWritten
    /\ Ended("write_bytes", "Ok") => call.result.n = Len(call.data)

\* C8 amended: the same for handles of width U32, U64 or U128.
C8_LengthIsByteCountUpTo128 ==
    /\ VacancyPassed /\ AllOk /\ data_width(fifo) \in {"U32", "U64", "U128"}
       => LengthWritten
    /\ Ended("write_bytes", "Ok") => call.result.n = Len(call.data)

\* A 64-bit payload of one word and a byte was transmitted: TX_LENGTH got 9,
\* the call returned Ok(9).
C8_Witness ==
    /\ Ended("write_bytes", "Ok") /\ data_width(fifo) = "U64"
    /\ Len(call.data) = 9 /\ call.result.n = 9
    /\ \E i \in DOMAIN bus : IsWrite(bus[i], REG_TX_LENGTH) /\ bus[i].val = <<0, 0, 0, 9>>

\* C9: for every destination byte d, a write_bytes call that passes the
\* vacancy check writes d & 0x0f (d mod 16) to TX_DESTINATION, once, before
\* any data word.
C9_DestinationMasked ==
    VacancyPassed =>
        /\ Len(bus) >= 3
        /\ Places(LAMBDA a : IsWrite(a, REG_TX_DESTINATION)) = {3}
        /\ bus[3].val = <<0, 0, 0, call.destination % 16>>
        /\ \A i \in Places(IsDataWrite) : i > 3

\* Destination 0xf5 reached the device as 5, followed by data words.
C9_Witness ==
    /\ VacancyPassed /\ call.destination = 245 /\ bus[3].ok
    /\ bus[3].val = <<0, 0, 0, 5>> /\ Places(IsDataWrite) # {}

\* The data-port writes of the call, in order.
DataWrites == SelectSeq(bus, IsDataWrite)

\* The k-th word of the payload as the claim describes it: bytes
\* data[(k-1)*W+1 .. k*W], zero bytes after the end of the payload; as a word
\* value (most significant byte first) on a host of the model's byte order.
ExpectedWord(k) ==
    LET b == [i \in 1..W |-> IF (k - 1) * W + i <= Len(call.data)
                             THEN call.data[(k - 1) * W + i] ELSE 0]
    IN  IF endian = "little" THEN [i \in 1..W |-> b[W + 1 - i]] ELSE b

WordsAsClaimed ==
    /\ Len(DataWrites) = CeilDiv(Len(call.data), W)
    /\ \A k \in DOMAIN DataWrites :
          DataWrites[k].val = ExpectedWord(k) /\ DataWrites[k].size = W
    /\ endian = "little" /\ W = 4 /\ call.data = <<1, 2, 3, 4, 5>>
       => <<DataWrites[1].val, DataWrites[2].val>> = <<<<4, 3, 2, 1>>, <<0, 0, 0, 5>>>>

ResetFollows(p) ==
    /\ Len(bus) = p + 5
    /\ \A i \in 1..5 : bus[p + i].ok /\ bus[p + i].rw = "W" /\ bus[p + i].map = "axi_lite"
    /\ <<bus[p + 1].off, bus[p + 2].off, bus[p + 3].off, bus[p + 4].off, bus[p + 5].off>>
         = <<\h28, \h08, \h18, \h04, \h00>>
    /\ \A i \in 1..3 : bus[p + i].val = <<\h00, \h00, \h00, \hA5>>
    /\ bus[p + 4].val = <<\hFE, \h00, \h00, \h00>>
    /\ bus[p + 5].val = <<\hFF, \hF8, \h00, \h00>>

\* The places of the status polls of a write_bytes call: the successful reads
\* of INTERRUPT_STATUS after TX_LENGTH was written.
Polls ==
    {p \in Places(LAMBDA a : IsRead(a, REG_INTERRUPT_STATUS) /\ a.ok) :
        \E l \in 1..(p - 1) : IsWrite(bus[l], REG_TX_LENGTH)}

\* Bits of a status value: TX_OVER_RUN 0x10000000, TX_COMPLETE 0x08000000,
\* TX_LENGTH_MISMATCH 0x02000000.
HasTxOverRun(v) == (v[1] \div 16) % 2 = 1
HasTxComplete(v) == (v[1] \div 8) % 2 = 1
HasTxMismatch(v) == (v[1] \div 2) % 2 = 1

\* What C11 says of a polled value with a TX error bit: the reset sequence
\* follows the poll, the call has returned, with OverRun if TX_OVER_RUN is
\* set and LengthMismatch otherwise, TX_COMPLETE set or not.
TxErrorHandled(p) ==
    /\ ResetFollows(p)
    /\ call.pc = "done"
    /\ call.result.tag = IF HasTxOverRun(bus[p].val) THEN "OverRun" ELSE "LengthMismatch"

StatusReads == Places(LAMBDA a : IsRead(a, REG_INTERRUPT_STATUS) /\ a.ok)

\* Bits of a status value: RX_UNDER_READ 0x80000000, RX_OVER_READ 0x40000000,
\* RX_UNDER_RUN 0x20000000.
HasRxUnderRead(v) == (v[1] \div 128) % 2 = 1
HasRxOverRead(v) == (v[1] \div 64) % 2 = 1
HasRxUnderRun(v) == (v[1] \div 32) % 2 = 1
HasRxError(v) == HasRxUnderRead(v) \/ HasRxOverRead(v) \/ HasRxUnderRun(v)

\* What C12 says of a status value with an RX error bit: the reset sequence
\* follows the read, and the call returns OverRun if RX_OVER_READ is set and
\* UnderRun otherwise.
RxErrorHandled(p) ==
    /\ ResetFollows(p)
    /\ call.result.tag = IF HasRxOverRead(bus[p].val) THEN "OverRun" ELSE "UnderRun"

\* With no RX error bit: no reset, nothing after the status read, success.
RxNoError(p) == Len(bus) = p /\ call.result.tag = "Ok"

Occupied == /\ call.op = "read_bytes" /\ Len(bus) >= 1 /\ bus[1].ok
            /\ IsRead(bus[1], REG_RX_OCCUPANCY) /\ bus[1].val # <<0, 0, 0, 0>>

\* RX_LENGTH & 0x003fffff
Masked22(v) == (v[2] % 64) * 65536 + v[3] * 256 + v[4]

\* The packet length and the destination the call has read.
PacketBytes == Masked22(bus[3].val)
RxDestination == bus[4].val[4]

\* min(len(buf), packet_bytes)
ReadLen == IF Len(call.data) < PacketBytes THEN Len(call.data) ELSE PacketBytes

\* No status value the call has read shows an RX error bit.
NoRxError == \A p \in StatusReads : ~HasRxError(bus[p].val)

\* C13, for the calls in which no bus access fails, on handles of width U32,
\* U64 or U128: for every buffer length and packet length, with RX_OCCUPANCY
\* non-zero and no RX error bit raised, read_bytes returns
\* Ok((min(len(buf), packet_bytes), low byte of RX_DESTINATION)) and the
\* buffer starts with that many bytes of the packet.
C13_ReadReturnsMin ==
    Occupied /\ AllOk /\ NoRxError /\ data_width(fifo) \in {"U32", "U64", "U128"} =>
        /\ Len(bus) >= 4
        /\ IsRead(bus[3], REG_RX_LENGTH) /\ IsRead(bus[4], REG_RX_DESTINATION)
        /\ call.result = [tag |-> "Ok", n |-> ReadLen, destination |-> RxDestination]
        /\ \A i \in 1..ReadLen : call.out[i] = (Seed + i - 1) % 256

\* C14, for the read calls in which no bus access fails: on a handle of width
\* U32, U64 or U128, after write_bytes(data, d) succeeded and the device
\* presents the words written as the next RX packet, read_bytes into a buffer
\* of at least len(data) bytes returns (len(data), d & 0x0f) and the buffer
\* starts with data.
C14_RoundTrip ==
    call.op = "read_back" /\ AllOk /\ data_width(fifo) \in {"U32", "U64", "U128"} =>
        /\ call.result = [tag |-> "Ok", n |-> Len(call.data),
                          destination |-> call.destination % 16]
        /\ \A i \in 1..Len(call.data) : call.out[i] = call.data[i]

\* The handle has a data region and width U256 or U512.
Wide == fifo.some /\ fifo.axi /\ data_width(fifo) \in {"U256", "U512"}

\* C15: on a handle with a data region and width U256 or U512, write_bytes
\* refuses every input: it returns to the caller (an error value, so it does
\* not abort), never returns success and never gets as far as waiting for the
\* transmission, even for empty data, and it neither pushes a data word nor
\* writes TX_LENGTH.
C15_WideWriteRefused ==
    call.op = "write_bytes" /\ Wide =>
        /\ call.pc = "done"
        /\ call.result.tag \notin {"Ok", "panic"}
        /\ Places(IsDataWrite) = {}
        /\ Places(LAMBDA a : IsWrite(a, REG_TX_LENGTH)) = {}

\* The data-port reads of a read_bytes call.
IsDataRead(a) ==
    /\ a.rw = "R"
    /\ \/ a.map = "axi" /\ a.off = FULL_REG_READ
       \/ a.map = "axi_lite" /\ a.off = REG_RX_DATA

Bits(w) == CASE w = "U32" -> 32 [] w = "U64" -> 64 [] w = "U128" -> 128
             [] w = "U256" -> 256 [] w = "U512" -> 512

\* C17: for every width w, byte_count(w) is positive and equals bits(w)/8
\* (4, 8, 16, 32, 64), and try_from_bits(8 * byte_count(w)) = Some(w);
\* try_from_bits returns None for every bit count other than 32, 64, 128, 256
\* and 512.
C17_WidthFunctions ==
    /\ call.op = "byte_count" =>
          /\ call.result.n > 0
          /\ call.result.n * 8 = Bits(call.width)
          /\ <<call.width, call.result.n>> \in
                {<<"U32", 4>>, <<"U64", 8>>, <<"U128", 16>>, <<"U256", 32>>, <<"U512", 64>>}
          /\ call.out = <<call.width>>
    /\ call.op = "try_from_bits" =>
          IF call.bits \in {32, 64, 128, 256, 512}
          THEN Len(call.out) = 1 /\ Bits(call.out[1]) = call.bits
          ELSE call.out = <<>>

\* byte_count(U512) gave 64 and try_from_bits(8 * 64) gave Some(U512).
C17_Witness ==
    /\ call.op = "byte_count" /\ call.width = "U512" /\ call.result.n = 64
    /\ call.bits = 512 /\ call.out = <<"U512">>

\* A write of the reset sequence.
IsResetWrite(a) ==
    \/ IsWrite(a, \h28) \/ IsWrite(a, \h08) \/ IsWrite(a, \h18) \/ IsWrite(a, \h04)
    \/ IsWrite(a, \h00) /\ a.val = <<\hFF, \hF8, \h00, \h00>>

\* The step of write_bytes an access belongs to: 1 the TX interrupt clear
\* (TX_ERROR | TX_COMPLETE = 0x1A000000 to INTERRUPT_STATUS), 2 the TX_VACANCY
\* read, 3 the TX_DESTINATION write, 4 a data word, 5 the TX_LENGTH write,
\* 6 a status poll, 7 a write of the reset that follows a TX error, 0
\* anything else.
TxRank(a) ==
    CASE IsWrite(a, REG_INTERRUPT_STATUS) /\ a.val = <<\h1A, \h00, \h00, \h00>> -> 1
      [] IsRead(a, REG_TX_VACANCY) -> 2
      [] IsWrite(a, REG_TX_DESTINATION) -> 3
      [] IsDataWrite(a) -> 4
      [] IsWrite(a, REG_TX_LENGTH) -> 5
      [] IsRead(a, REG_INTERRUPT_STATUS) -> 6
      [] IsResetWrite(a) -> 7
      [] OTHER -> 0

\* The step of read_bytes an access belongs to: 1 the RX_OCCUPANCY read, 2 the
\* RX interrupt clear (RX_ERROR | RX_COMPLETE = 0xE4000000), 3 the RX_LENGTH
\* read, 4 the RX_DESTINATION read, 5 a data word, 6 the status read, 7 a
\* write of the reset that follows an RX error.
RxRank(a) ==
    CASE IsRead(a, REG_RX_OCCUPANCY) -> 1
      [] IsWrite(a, REG_INTERRUPT_STATUS) /\ a.val = <<\hE4, \h00, \h00, \h00>> -> 2
      [] IsRead(a, REG_RX_LENGTH) -> 3
      [] IsRead(a, REG_RX_DESTINATION) -> 4
      [] IsDataRead(a) -> 5
      [] IsRead(a, REG_INTERRUPT_STATUS) -> 6
      [] IsResetWrite(a) -> 7
      [] OTHER -> 0

\* The accesses of the call go through the steps in order: no access outside
\* the steps, no step after a later one, the once-only steps at most once,
\* and none of them skipped.
InOrder(Rank(_), once) ==
    /\ \A i \in DOMAIN bus : Rank(bus[i]) # 0
    /\ \A i, j \in DOMAIN bus : i < j => Rank(bus[i]) <= Rank(bus[j])
    /\ \A i, j \in DOMAIN bus : Rank(bus[i]) = Rank(bus[j]) /\ Rank(bus[i]) \in once => i = j
    /\ \A i \in DOMAIN bus : \A r \in once :
          r < Rank(bus[i]) => \E j \in 1..(i - 1) : Rank(bus[j]) = r

Ends(v) == HasTxComplete(v) \/ HasTxOverRun(v) \/ HasTxMismatch(v)

\* write_bytes is in its polling loop.
Polling == call.op = "write_bytes" /\ call.pc = "poll"

\* The safety half of C19: a poll that shows neither TX_COMPLETE nor a TX
\* error bit does not end the call, however many came before it, and a call
\* that has returned after TX_LENGTH without a failed bus access has polled a
\* value with one of the bits.
C19_ReturnsOnlyOnStatus ==
    call.op = "write_bytes" =>
        /\ \A p \in Polls : p = Len(bus) /\ ~Ends(bus[p].val) => call.pc = "poll"
        /\ call.pc = "done" /\ AllOk /\ Places(LAMBDA a : IsWrite(a, REG_TX_LENGTH)) # {}
           => \E p \in Polls : Ends(bus[p].val)

\* C19: after writing TX_LENGTH, write_bytes returns only once a polled value
\* has TX_COMPLETE or a TX error bit set, and while the peripheral raises
\* neither the call stays in the loop; given that the peripheral eventually
\* raises one of the bits, the call eventually returns.
C19_PollsUntilStatus ==
    /\ []C19_ReturnsOnlyOnStatus
    /\ [][Polling /\ ~Ends(dev.isr) /\ dev' = dev => call'.pc = "poll" \/ ~AllOk']_vars
    /\ Polling ~> (call.op = "write_bytes" /\ call.pc = "done")

\* A call polled once without seeing a bit, polled again and returned success.
C19_Witness ==
    /\ Ended("write_bytes", "Ok") /\ Cardinality(Polls) = 2
    /\ \E p \in Polls : ~Ends(bus[p].val)

\* An access to TX_DATA (0x10) or RX_DATA (0x20) in the control region.
IsLiteData(a) == a.map = "axi_lite" /\ a.off \in {16, 32}

\* C20: on a handle without a data region every data word of write_bytes is
\* a 32-bit write to TX_DATA and every data word of read_bytes a 32-bit read
\* of RX_DATA, and the data region is never accessed; on a handle with a data
\* region every data word is one write of W bytes to FULL_REG_WRITE (0x0000)
\* or one read of W bytes from FULL_REG_READ (0x1000), and TX_DATA / RX_DATA
\* are never accessed.  The data words of a write that got to TX_LENGTH are
\* all there.
C20_RegionSelection ==
    call.op \in {"write_bytes", "read_bytes"} =>
        /\ \A i \in DOMAIN bus :
              IF fifo.axi
              THEN /\ ~IsLiteData(bus[i])
                   /\ bus[i].map = "axi" =>
                         /\ bus[i].size = W
                         /\ <<bus[i].rw, bus[i].off>> =
                               IF call.op = "write_bytes" THEN <<"W", 0>> ELSE <<"R", 4096>>
              ELSE /\ bus[i].map = "axi_lite"
                   /\ IsLiteData(bus[i]) =>
                         /\ bus[i].size = 4
                         /\ <<bus[i].rw, bus[i].off>> =
                               IF call.op = "write_bytes" THEN <<"W", 16>> ELSE <<"R", 32>>
        /\ Places(LAMBDA a : IsWrite(a, REG_TX_LENGTH)) # {} =>
              Cardinality(Places(LAMBDA a : IF fifo.axi THEN a.map = "axi" ELSE IsLiteData(a)))
                 = CeilDiv(Len(call.data), W)

\* A U128 handle with a data region pushed a payload of a word and a byte as
\* two 16-byte writes to the data region.
C20_Witness ==
    /\ call.op = "write_bytes" /\ fifo.axi /\ data_width(fifo) = "U128" /\ AllOk
    /\ Cardinality(Places(LAMBDA a : a.map = "axi" /\ a.size = 16 /\ a.off = 0)) = 2
    /\ Len(call.data) = 17

\* The number of data words read_bytes is to fetch: ceil(min(len(buf),
\* packet_bytes) / W).
ReadWords == CeilDiv(ReadLen, W)

\* C21, for the calls in which no bus access fails: for widths U32, U64 and
\* U128 and every buffer and packet length, read_bytes with non-zero occupancy
\* does not fault on an out-of-range slice, issues exactly
\* ceil(min(len(buf), packet_bytes)/W) data-port reads whatever RX_OCCUPANCY
\* says, stores the words read in order from the start of the buffer, and
\* changes no byte of the buffer behind them.
C21_ReadStaysInBuffer ==
    Occupied /\ AllOk /\ data_width(fifo) \in {"U32", "U64", "U128"} =>
        /\ Len(bus) >= 4
        /\ call.result.tag # "panic"
        /\ Cardinality(Places(IsDataRead)) = ReadWords
        /\ Len(call.out) = Len(call.data)
        /\ \A i \in 1..Len(call.out) :
              call.out[i] = IF i > ReadWords * W THEN call.data[i]
                            ELSE IF i <= PacketBytes THEN (Seed + i - 1) % 256
                            ELSE 0

\* The places of the bus accesses that failed.
Failed == {i \in DOMAIN bus : ~bus[i].ok}

\* C22: if a bus access fails during reset, write_bytes or read_bytes, also
\* in the reset issued on a status error, the operation issues no further
\* bus access (so it does not retry) and returns an I/O error, not success and
\* not a classified FIFO error; when one of the three reset writes of reset()
\* fails, that call writes neither INTERRUPT_ENABLE nor INTERRUPT_STATUS.
C22_BusFailureAborts ==
    call.op \in {"reset", "write_bytes", "read_bytes"} =>
        /\ \A i \in Failed :
              /\ i = Len(bus)
              /\ call.pc = "done"
              /\ call.result.tag = "Io"
        /\ call.result.tag = "Io" => Failed # {}
        /\ call.op = "reset" /\ Failed # {} /\ Len(bus) <= 3 =>
              /\ Places(LAMBDA a : IsWrite(a, REG_INTERRUPT_ENABLE)) = {}
              /\ Places(LAMBDA a : IsWrite(a, REG_INTERRUPT_STATUS)) = {}

\* read_bytes saw an RX error, and the second write of the reset it issued
\* failed: the call stopped there with an I/O error.
C22_Witness ==
    /\ call.op = "read_bytes" /\ call.result.tag = "Io"
    /\ \E p \in StatusReads : /\ HasRxError(bus[p].val) /\ Len(bus) = p + 2
                              /\ IsWrite(bus[p + 2], REG_TX_RESET) /\ ~bus[p + 2].ok

\* The TX bits the polling loop of write_bytes looks at, and the RX error
\* bits read_bytes looks at, of a status value.
TxBits(v) == And(v, Or(INTERRUPT_TX_ERROR, INTERRUPT_TX_COMPLETE))
RxErrorBits(v) == And(v, INTERRUPT_RX_ERROR)

\* C23: status bits left set before a call never decide it. In write_bytes
\* every TX_COMPLETE, TX_OVER_RUN or TX_LENGTH_MISMATCH bit seen by a poll was
\* raised by the device after the call's TX interrupt clear, so a call that
\* returned Ok, OverRun or LengthMismatch after writing TX_LENGTH saw the
\* device raise the matching bit during the call. In read_bytes with non-zero
\* occupancy the RX error bits of the status read after the drain are the ones
\* the device raised during the call, and the call returns OverRun or UnderRun
\* only when the device raised an RX error bit.
C23_StaleBitsNeverDecide ==
    /\ call.op = "write_bytes" =>
          /\ \A p \in Polls : And(TxBits(bus[p].val), call.raised) = TxBits(bus[p].val)
          /\ call.pc = "done" /\ LengthWritten =>
                /\ call.result.tag = "Ok" => HasTxComplete(call.raised)
                /\ call.result.tag = "OverRun" => HasTxOverRun(call.raised)
                /\ call.result.tag = "LengthMismatch" => HasTxMismatch(call.raised)
    /\ Occupied =>
          /\ \A p \in StatusReads : RxErrorBits(bus[p].val) = RxErrorBits(call.raised)
          /\ call.result.tag \in {"OverRun", "UnderRun"} => HasRxError(call.raised)

\* A write_bytes call entered with TX_COMPLETE still set from before polled
\* once without seeing any TX bit, and returned Ok only on the poll that
\* followed the device raising TX_COMPLETE for the new packet.
C23_Witness ==
    /\ Ended("write_bytes", "Ok")
    /\ HasTxComplete(call.stale)
    /\ call.raised = INTERRUPT_TX_COMPLETE
    /\ \E p \in Polls : ~Ends(bus[p].val)
    /\ \E p \in Polls : HasTxComplete(bus[p].val)

=============================================================================
